---- MODULE Spec2Model ----
(***************************************************************************)
(* Model of src/server.js: the socket.io relay that keeps, per room, one   *)
(* master, the users, their sheets, the NPCs and a bounded roll ledger.    *)
(*                                                                         *)
(* Strings (room ids, socket ids, names, field values) are sequences of    *)
(* one-character strings, so that trim/slice/replace and Number() are      *)
(* computed as the code computes them.  JS objects that are iterated       *)
(* (the rooms Map, room.users, room.npcs) are sequences of <<key, value>>  *)
(* pairs in insertion order; room.sheets is never iterated and is a        *)
(* function.  JS values are records tagged by t: "null" (null/undefined),  *)
(* "str", "num", "nan", "obj".                                             *)
(***************************************************************************)
EXTENDS Integers, Sequences, FiniteSets, TLC

VARIABLES
    rooms,      \* the Map `rooms` (line 11): sequence of <<roomId, room>>
    live,       \* the connected sockets
    groups,     \* socket.io group membership: group name -> set of sockets
    last,       \* the inbound event just handled, Idle once its handler has returned
    out,        \* the outbound events of that dispatch, in emission order
    clock,      \* Date.now(), in ticks
    accepted,   \* history: per room id, the entries appended since the room was stored
    creators,   \* history: per room id, the sockets whose room:create succeeded on the room now stored
    used        \* history: the accepted roll:send events and document writes so far

vars == <<rooms, live, groups, last, out, clock, accepted, creators, used>>

----------------------------------------------------------------------------
(* Bounds of the model *)

\* in one behaviour at most MaxOps dispatches in all store something: a
\* successful room:create or room:join, an accepted roll:send, a written
\* sheet or NPC document
MaxOps == 3

Spent == used.joins + used.sends + used.writes

----------------------------------------------------------------------------
(* Strings *)

Min(a, b) == IF a < b THEN a ELSE b

Lower == {"a","b","c","d","e","f","g","h","i","j","k","l","m",
          "n","o","p","q","r","s","t","u","v","w","x","y","z"}
Upper == {"A","B","C","D","E","F","G","H","I","J","K","L","M",
          "N","O","P","Q","R","S","T","U","V","W","X","Y","Z"}
Digits == {"0","1","2","3","4","5","6","7","8","9"}

\* the class [a-zA-Z0-9_-] of line 14
IdChars == Lower \cup Upper \cup Digits \cup {"_", "-"}

IsSpace(ch) == ch \in {" ", "\t", "\n"}

RECURSIVE TrimStart(_)
TrimStart(s) == IF s # <<>> /\ IsSpace(Head(s)) THEN TrimStart(Tail(s)) ELSE s

RECURSIVE TrimEnd(_)
TrimEnd(s) ==
    IF s # <<>> /\ IsSpace(s[Len(s)]) THEN TrimEnd(SubSeq(s, 1, Len(s) - 1)) ELSE s

\* String.prototype.trim
Trim(s) == TrimEnd(TrimStart(s))

\* String.prototype.slice(0, n)
Slice0(s, n) == SubSeq(s, 1, Min(n, Len(s)))

Repeat(ch, n) == [i \in 1..n |-> ch]

\* safeRoomId (lines 13-15); an undefined raw id is the empty string
safeRoomId(raw) == SelectSeq(Slice0(Trim(raw), 32), LAMBDA ch : ch \in IdChars)

\* String(name || dflt).slice(0, 40) (lines 60, 75)
storedName(name, dflt) == Slice0(IF name = <<>> THEN dflt ELSE name, 40)

----------------------------------------------------------------------------
(* Insertion-ordered maps: sequences of <<key, value>> with distinct keys *)

Keys(m) == {m[i][1] : i \in DOMAIN m}
Has(m, k) == \E i \in DOMAIN m : m[i][1] = k
Get(m, k) == m[CHOOSE i \in DOMAIN m : m[i][1] = k][2]
Put(m, k, v) ==
    IF Has(m, k)
    THEN [i \in DOMAIN m |-> IF m[i][1] = k THEN <<k, v>> ELSE m[i]]
    ELSE Append(m, <<k, v>>)
Del(m, k) == SelectSeq(m, LAMBDA e : e[1] # k)

\* a function extended or overwritten at one key (room.sheets[k] = v)
FnPut(f, k, v) == [x \in DOMAIN f \cup {k} |-> IF x = k THEN v ELSE f[x]]

----------------------------------------------------------------------------
(* JS values and sheet documents *)

JNull == [t |-> "null"]
JNaN == [t |-> "nan"]
JStr(s) == [t |-> "str", s |-> s]
JNum(n) == [t |-> "num", n |-> n]

\* o?.f : undefined when o is null/undefined or has no field f
FieldOf(o, f) == IF o.t = "obj" /\ f \in DOMAIN o THEN o[f] ELSE JNull

\* a ?? b
Coalesce(a, b) == IF a.t = "null" THEN b ELSE a

\* JS truthiness
Truthy(v) ==
    CASE v.t = "null" -> FALSE
      [] v.t = "nan" -> FALSE
      [] v.t = "str" -> v.s # <<>>
      [] v.t = "num" -> v.n # 0
      [] OTHER -> TRUE

DigitSeq == <<"0","1","2","3","4","5","6","7","8","9">>
DigitVal(ch) == (CHOOSE i \in DOMAIN DigitSeq : DigitSeq[i] = ch) - 1

RECURSIVE DecimalValue(_)
DecimalValue(s) ==
    IF s = <<>> THEN 0
    ELSE 10 * DecimalValue(SubSeq(s, 1, Len(s) - 1)) + DigitVal(s[Len(s)])

\* Number(v) for null, numbers and strings of decimal digits; any other
\* string and any object give NaN
ToNumber(v) ==
    CASE v.t = "null" -> JNum(0)
      [] v.t = "num" -> v
      [] v.t = "str" ->
            LET s == Trim(v.s)
            IN  IF \A i \in DOMAIN s : s[i] \in Digits THEN JNum(DecimalValue(s)) ELSE JNaN
      [] OTHER -> JNaN

\* v !== ""
NotEmptyString(v) == ~(v.t = "str" /\ v.s = <<>>)

\* extractSummaryFromSheet (lines 22-28)
extractSummaryFromSheet(sheet) ==
    LET hp == Coalesce(Coalesce(FieldOf(sheet, "hp_now"),
                                FieldOf(FieldOf(sheet, "resources"), "hp")), JNull)
        pd == Coalesce(Coalesce(FieldOf(sheet, "pd_now"),
                                FieldOf(FieldOf(sheet, "resources"), "pd")), JNull)
        name == Coalesce(Coalesce(FieldOf(sheet, "name"),
                                  FieldOf(FieldOf(sheet, "character"), "name")), JNull)
    IN  [hp |-> IF NotEmptyString(hp) THEN ToNumber(hp) ELSE JNull,
         pd |-> IF NotEmptyString(pd) THEN ToNumber(pd) ELSE JNull,
         name |-> IF Truthy(name) THEN name ELSE JNull]

----------------------------------------------------------------------------
(* Rooms *)

\* masterSocketId: null
Null == <<>>

\* the room object of ensureRoom (line 17)
NewRoom == [masterSocketId |-> Null, users |-> <<>>, sheets |-> [k \in {} |-> JNull],
            npcs |-> <<>>, rolls |-> <<>>]

\* room.sheets[k], undefined when absent
SheetOf(room, k) == IF k \in DOMAIN room.sheets THEN room.sheets[k] ELSE JNull

\* room.npcs[k], undefined when absent
NpcOf(room, k) == IF Has(room.npcs, k) THEN Get(room.npcs, k) ELSE JNull

\* userName (line 20)
userName(room, sid) ==
    IF Has(room.users, sid) /\ Get(room.users, sid).name # <<>>
    THEN Get(room.users, sid).name
    ELSE <<"P","l","a","y","e","r">>

\* the player entry buildIndex pushes for one user (lines 34-36)
PlayerEntry(room, sid, u) ==
    LET sh == SheetOf(room, sid)
        s == IF Truthy(sh) THEN extractSummaryFromSheet(sh)
             ELSE [hp |-> JNull, pd |-> JNull, name |-> JStr(u.name)]
    IN  [id |-> sid, type |-> "player",
         name |-> IF Truthy(s.name) THEN s.name ELSE JStr(u.name),
         hp |-> s.hp, pd |-> s.pd]

\* the NPC entry buildIndex pushes for one NPC (lines 39-40)
NpcEntry(nid, sh) ==
    LET s == extractSummaryFromSheet(sh)
    IN  [id |-> nid, type |-> "npc",
         name |-> IF Truthy(s.name) THEN s.name ELSE JStr(<<"N","P","C">>),
         hp |-> s.hp, pd |-> s.pd]

\* the users buildIndex keeps (line 33)
IndexedUsers(room) == SelectSeq(room.users, LAMBDA e : e[2].role = "player")

\* buildIndex (lines 30-43)
buildIndex(room) ==
    LET ps == IndexedUsers(room)
    IN  [i \in DOMAIN ps |-> PlayerEntry(room, ps[i][1], ps[i][2])]
        \o [i \in DOMAIN room.npcs |-> NpcEntry(room.npcs[i][1], room.npcs[i][2])]

----------------------------------------------------------------------------
(* The inputs the model draws from *)

C1 == <<"c", "1">>
C2 == <<"c", "2">>
C3 == <<"c", "3">>

\* socket ids (socket.io draws them from the class [A-Za-z0-9_-])
Conns == {C1, C2, C3}

R1 == <<"r", "1">>

\* raw room ids: one that sanitizes to nothing; one that sanitizes to R1
\* by trimming, cutting at 32 characters and stripping; and one that spells
\* the socket id C1
RawInvalid == <<" ", "!", " ">>
RawR1 == <<" ">> \o R1 \o Repeat("/", 30) \o <<"x", " ">>
RawRoomIds == {RawInvalid, RawR1, C1}

\* the raw ids given to the handlers that only look the room up (to them
\* an id that sanitizes to nothing is one more id with no room)
LookupIds == {RawR1, C1}

\* the ids rooms can be stored under
RoomIds == {safeRoomId(raw) : raw \in RawRoomIds} \ {<<>>}

\* names: every socket supplies its own, always the same: none, one longer
\* than 40 characters, a short one
LongName == Repeat("n", 41)
Ana == <<"A", "n", "a">>
NameOf(c) == IF c = C1 THEN <<>> ELSE IF c = C2 THEN LongName ELSE Ana

Mestre == <<"M","e","s","t","r","e">>
Player == <<"P","l","a","y","e","r">>

\* sheet documents: undefined, the two of the summary examples
DocA == [t |-> "obj", hp_now |-> JStr(<<"1", "2">>), pd_now |-> JStr(<<>>)]
DocB == [t |-> "obj", resources |-> [t |-> "obj", hp |-> JNum(5), pd |-> JNum(3)],
         character |-> [t |-> "obj", name |-> JStr(<<"B", "o">>)]]
EmptyDoc == [t |-> "obj"]
Docs == {JNull, DocB}

\* sheets for the summary: every combination of hp_now and resources.hp
\* being absent, null, "", "12" or 7, either with nothing else or with
\* resources.pd 3, name "" and character.name "Bo"; and no sheet at all
Absent == [t |-> "absent"]
NoFields == [k \in {} |-> JNull]
Field(f, v) == IF v = Absent THEN NoFields ELSE (f :> v)
Object(fields) == [t |-> "obj"] @@ fields
Nested(f, fields) == IF fields = NoFields THEN NoFields ELSE (f :> Object(fields))
Bo == <<"B", "o">>
SummaryValues == {Absent, JNull, JStr(<<>>), JStr(<<"1", "2">>), JNum(7)}
SummaryDoc(hpNow, resHp, full) ==
    Object(Field("hp_now", hpNow)
           @@ Nested("resources", Field("hp", resHp)
                                  @@ (IF full THEN Field("pd", JNum(3)) ELSE NoFields))
           @@ (IF full THEN Field("name", JStr(<<>>)) ELSE NoFields)
           @@ (IF full THEN Nested("character", Field("name", JStr(Bo))) ELSE NoFields))
SummaryDocs ==
    {JNull} \cup
    {SummaryDoc(hpNow, resHp, full) :
        hpNow \in SummaryValues, resHp \in SummaryValues, full \in BOOLEAN}

\* "npc_" + Math.random().toString(36).slice(2,10): two of its values
NpcA == <<"n","p","c","_","a">>
NpcB == <<"n","p","c","_","b">>
NpcIds == {NpcA, NpcB}

\* the ownerSocketId a client may name: a socket id or any other string
OwnerIds == {C2, C3, R1}

Payloads == {"d20"}

\* the error strings of the handlers (accents dropped)
ErrInvalidId == "Room ID invalido."
ErrHasMaster == "Essa sala ja tem mestre. Entre como Player."
ErrNoRoom == "Sala nao existe (ou esta sem mestre)."
ErrSeeSheets == "Apenas o mestre pode ver fichas de outros."
ErrNoSheet == "Esse player ainda nao enviou a ficha."
ErrEditSheets == "Apenas o mestre pode editar fichas de outros."
ErrNpcCreate == "So o mestre pode criar NPC."
ErrNpcMissing == "NPC nao encontrado."
ErrNpcUpdate == "So o mestre pode editar NPC."
ErrNpcDelete == "So o mestre pode excluir NPC."
ErrMasterLeft == "O mestre desconectou. Sala ficou sem mestre."

----------------------------------------------------------------------------
(* The transport *)

\* socket.emit: to the socket itself
ToSocket(c) == [kind |-> "socket", id |-> c]

\* io.to(name): to the group of that name
ToGroup(name) == [kind |-> "group", id |-> name]

\* the sockets in group `name`
Members(g, name) == IF name \in DOMAIN g THEN g[name] ELSE {}

\* one outbound event, with the sockets it is delivered to
Emit(to, ev, data, g) ==
    [ev |-> ev, to |-> to, data |-> data,
     rcpt |-> IF to.kind = "socket" THEN {to.id} ELSE Members(g, to.id)]

\* the error sent with io.to(...) to the group of room R1 instead
RejectToRoom(c, msg) == <<Emit(ToGroup(R1), "error:msg", msg, groups)>>

\* return socket.emit("error:msg", msg): the whole output of a rejected event
Reject(c, msg) == <<Emit(ToSocket(c), "error:msg", msg, groups)>>

\* socket.join(name)
Join(g, c, name) == [g EXCEPT ![name] = @ \cup {c}]

\* what socket.io does before the disconnect handlers run: the socket
\* leaves every group
LeaveAll(g, c) == [n \in DOMAIN g |-> g[n] \ {c}]

\* emitIndex (lines 45-47); `about` keeps the roomId argument
emitIndex(roomId, room, g) ==
    [ev |-> "room:sheetsIndex", to |-> ToGroup(room.masterSocketId),
     data |-> [list |-> buildIndex(room)],
     rcpt |-> Members(g, room.masterSocketId), about |-> roomId]

----------------------------------------------------------------------------
(* The registry *)

\* rooms.get(id)
Stored(id) == Has(rooms, id)
RoomAt(id) == Get(rooms, id)

\* ensureRoom (lines 16-19): the Map after the call
ensureRoom(rs, id) == IF Has(rs, id) THEN rs ELSE Append(rs, <<id, NewRoom>>)

\* line 55 with the users test negated
HasLiveMasterNegated(room) ==
    room.masterSocketId # Null /\ ~Has(room.users, room.masterSocketId)

\* line 55 refusing also the room that has no master yet
HasLiveMasterOrNone(room) ==
    room.masterSocketId = Null \/ Has(room.users, room.masterSocketId)

\* the test of line 55: the room has a master that is still in users
HasLiveMaster(room) ==
    room.masterSocketId # Null /\ Has(room.users, room.masterSocketId)

\* line 73 with the master test negated
JoinableNegated(rs, id) == Has(rs, id) /\ Get(rs, id).masterSocketId = Null

\* the test of line 73: the room may be joined
Joinable(rs, id) == Has(rs, id) /\ Get(rs, id).masterSocketId # Null

\* the master test dropped
IsAnyone(room, c) == TRUE

\* the master test weakened to "is a user of the room"
IsMasterOrUser(room, c) == c = room.masterSocketId \/ Has(room.users, c)

\* socket.id === room.masterSocketId (lines 93, 120, 133, 148, 160, 170, 181)
IsMaster(room, c) == c = room.masterSocketId

RollCap == 50

\* lines 201-202 without the shift
AppendRollNoShift(rolls, entry) == Append(rolls, entry)

\* lines 201-202 with pop() in place of shift()
AppendRollPop(rolls, entry) ==
    LET pushed == Append(rolls, entry)
    IN  IF Len(pushed) > RollCap THEN rolls ELSE pushed

\* lines 201-202: push, then shift when longer than 50
AppendRoll(rolls, entry) ==
    LET pushed == Append(rolls, entry)
    IN  IF Len(pushed) > RollCap THEN Tail(pushed) ELSE pushed

Event(ev, c, id) == [ev |-> ev, from |-> c, roomId |-> id]

\* no dispatch is in progress: the event loop is idle
Idle == Event("idle", Null, Null)

\* a connected socket's event is taken only when the previous handler has
\* returned (run to completion)
Ready(c) == last = Idle /\ c \in live

----------------------------------------------------------------------------
(* Initial state: the empty registry of line 11, every socket connected    *)
(* and, as socket.io arranges, alone in the group named by its own id      *)

GroupNames == Conns \cup RoomIds

Init ==
    /\ rooms = <<>>
    /\ live = Conns
    /\ groups = [n \in GroupNames |-> IF n \in Conns THEN {n} ELSE {}]
    /\ last = Idle
    /\ out = <<>>
    /\ clock = 0
    /\ accepted = [id \in RoomIds |-> <<>>]
    /\ creators = [id \in RoomIds |-> {}]
    /\ used = [sends |-> 0, writes |-> 0, joins |-> 0]

----------------------------------------------------------------------------
(* The handlers *)

\* room:create (lines 50-66)
RoomCreate(c, raw, name) ==
    LET id == safeRoomId(raw)
        rs == ensureRoom(rooms, id)
        room == Get(rs, id)
        room2 == [room EXCEPT !.masterSocketId = c,
                              !.users = Put(@, c, [name |-> storedName(name, Mestre),
                                                   role |-> "master"])]
        g2 == Join(groups, c, id)
    IN  /\ Ready(c)
        /\ last' = Event("room:create", c, id)
        /\ UNCHANGED <<live, clock, accepted>>
        /\ IF id = <<>>
           THEN /\ out' = Reject(c, ErrInvalidId)
                /\ UNCHANGED <<rooms, groups, creators, used>>
           ELSE IF HasLiveMaster(room)
           THEN /\ out' = Reject(c, ErrHasMaster)
                /\ rooms' = rs
                /\ UNCHANGED <<groups, creators, used>>
           ELSE /\ Spent < MaxOps
                /\ used' = [used EXCEPT !.joins = @ + 1]
                /\ rooms' = Put(rs, id, room2)
                /\ groups' = g2
                /\ creators' = [creators EXCEPT ![id] = @ \cup {c}]
                /\ out' = << Emit(ToSocket(c), "room:joined",
                                  [roomId |-> id, role |-> "master", socketId |-> c], g2),
                             Emit(ToSocket(c), "roll:history", [list |-> room2.rolls], g2),
                             emitIndex(id, room2, g2) >>

\* room:join (lines 68-87)
RoomJoin(c, raw, name) ==
    LET id == safeRoomId(raw)
        room == RoomAt(id)
        room2 == [room EXCEPT !.users = Put(@, c, [name |-> storedName(name, Player),
                                                   role |-> "player"])]
        g2 == Join(groups, c, id)
        own == SheetOf(room2, c)
    IN  /\ Ready(c)
        /\ last' = Event("room:join", c, id)
        /\ UNCHANGED <<live, clock, accepted, creators>>
        /\ IF id = <<>>
           THEN /\ out' = Reject(c, ErrInvalidId)
                /\ UNCHANGED <<rooms, groups, used>>
           ELSE IF ~Joinable(rooms, id)
           THEN /\ out' = Reject(c, ErrNoRoom)
                /\ UNCHANGED <<rooms, groups, used>>
           ELSE /\ Spent < MaxOps
                /\ used' = [used EXCEPT !.joins = @ + 1]
                /\ rooms' = Put(rooms, id, room2)
                /\ groups' = g2
                /\ out' = << Emit(ToSocket(c), "room:joined",
                                  [roomId |-> id, role |-> "player", socketId |-> c], g2),
                             Emit(ToSocket(c), "roll:history", [list |-> room2.rolls], g2) >>
                           \o (IF Truthy(own)
                               THEN <<Emit(ToSocket(c), "sheet:load",
                                           [ownerSocketId |-> c, sheet |-> own,
                                            type |-> "player", id |-> c], g2)>>
                               ELSE <<>>)
                           \o <<emitIndex(id, room2, g2)>>

\* room:requestIndex (lines 89-95)
RequestIndex(c, raw) ==
    LET id == safeRoomId(raw)
    IN  /\ Ready(c)
        /\ last' = Event("room:requestIndex", c, id)
        /\ UNCHANGED <<rooms, live, groups, clock, accepted, creators, used>>
        /\ out' = IF Stored(id) /\ IsMaster(RoomAt(id), c)
                  THEN <<emitIndex(id, RoomAt(id), groups)>>
                  ELSE <<>>

\* A handler that refuses an event before it reads the event's other
\* arguments is modelled without them: they are drawn only where the code
\* reads them.

\* line 104 storing the sheet under the master's id instead of the caller's
SaveSheetAsMaster(c, id, sheet) ==
    LET room2 == [RoomAt(id) EXCEPT !.sheets = FnPut(@, RoomAt(id).masterSocketId, sheet)]
    IN  /\ rooms' = Put(rooms, id, room2)
        /\ out' = <<>>

\* sheet:save (lines 98-113), once the caller is known to be a user
SaveSheet(c, id, sheet) ==
    LET room2 == [RoomAt(id) EXCEPT !.sheets = FnPut(@, c, sheet)]
        sum == extractSummaryFromSheet(sheet)
    IN  /\ rooms' = Put(rooms, id, room2)
        /\ out' = IF room2.masterSocketId # Null
                  THEN << Emit(ToGroup(room2.masterSocketId), "sheet:summary",
                               [ownerSocketId |-> c, ownerName |-> userName(room2, c),
                                hp |-> sum.hp, pd |-> sum.pd, name |-> sum.name],
                               groups),
                          Emit(ToGroup(room2.masterSocketId), "sheet:push",
                               [ownerSocketId |-> c, sheet |-> sheet], groups),
                          emitIndex(id, room2, groups) >>
                  ELSE <<>>

\* sheet:save (lines 98-113), its sheet argument drawn from `docs`
SheetSaveFrom(c, raw, docs) ==
    LET id == safeRoomId(raw)
    IN  /\ Ready(c)
        /\ last' = Event("sheet:save", c, id)
        /\ UNCHANGED <<live, groups, clock, accepted, creators>>
        /\ IF Stored(id) /\ Has(RoomAt(id).users, c)
           THEN /\ Spent < MaxOps
                /\ used' = [used EXCEPT !.writes = @ + 1]
                /\ \E sheet \in docs : SaveSheet(c, id, sheet)
           ELSE /\ out' = <<>>
                /\ UNCHANGED <<rooms, used>>

\* sheet:save (lines 98-113)
SheetSave(c, raw) == SheetSaveFrom(c, raw, Docs)

\* master:requestSheet (lines 116-126)
MasterRequestSheet(c, raw) ==
    LET id == safeRoomId(raw)
        room == RoomAt(id)
    IN  /\ Ready(c)
        /\ last' = Event("master:requestSheet", c, id)
        /\ UNCHANGED <<rooms, live, groups, clock, accepted, creators, used>>
        /\ IF ~Stored(id) THEN out' = <<>>
           ELSE IF ~IsMaster(room, c) THEN out' = Reject(c, ErrSeeSheets)
           ELSE \E owner \in OwnerIds :
                    out' = IF ~Truthy(SheetOf(room, owner))
                           THEN Reject(c, ErrNoSheet)
                           ELSE <<Emit(ToSocket(c), "sheet:load",
                                       [ownerSocketId |-> owner,
                                        sheet |-> SheetOf(room, owner),
                                        type |-> "player", id |-> owner], groups)>>

\* master:updateSheet (lines 135-140), once the caller is known to be the master
UpdateSheet(c, id, owner, sheet) ==
    LET room2 == [RoomAt(id) EXCEPT !.sheets = FnPut(@, owner, sheet)]
        load == [ownerSocketId |-> owner, sheet |-> sheet, type |-> "player", id |-> owner]
    IN  /\ rooms' = Put(rooms, id, room2)
        /\ out' = << Emit(ToGroup(owner), "sheet:load", load, groups),
                     Emit(ToSocket(c), "sheet:load", load, groups),
                     emitIndex(id, room2, groups) >>

\* master:updateSheet (lines 129-141)
MasterUpdateSheet(c, raw) ==
    LET id == safeRoomId(raw)
    IN  /\ Ready(c)
        /\ last' = Event("master:updateSheet", c, id)
        /\ UNCHANGED <<live, groups, clock, accepted, creators>>
        /\ IF ~Stored(id)
           THEN /\ out' = <<>>
                /\ UNCHANGED <<rooms, used>>
           ELSE IF ~IsMaster(RoomAt(id), c)
           THEN /\ out' = Reject(c, ErrEditSheets)
                /\ UNCHANGED <<rooms, used>>
           ELSE /\ Spent < MaxOps
                /\ used' = [used EXCEPT !.writes = @ + 1]
                /\ \E owner \in OwnerIds, sheet \in Docs : UpdateSheet(c, id, owner, sheet)

\* npc:create (lines 150-153), once the caller is known to be the master;
\* npcId is the random id drawn at line 150
CreateNpc(c, id, sheet, npcId) ==
    LET doc == IF Truthy(sheet) THEN sheet ELSE EmptyDoc
        room2 == [RoomAt(id) EXCEPT !.npcs = Put(@, npcId, doc)]
    IN  /\ rooms' = Put(rooms, id, room2)
        /\ out' = << Emit(ToSocket(c), "npc:created",
                          [npcId |-> npcId, sheet |-> doc], groups),
                     emitIndex(id, room2, groups) >>

\* npc:create (lines 144-154)
NpcCreate(c, raw) ==
    LET id == safeRoomId(raw)
    IN  /\ Ready(c)
        /\ last' = Event("npc:create", c, id)
        /\ UNCHANGED <<live, groups, clock, accepted, creators>>
        /\ IF ~Stored(id)
           THEN /\ out' = <<>>
                /\ UNCHANGED <<rooms, used>>
           ELSE IF ~IsMaster(RoomAt(id), c)
           THEN /\ out' = Reject(c, ErrNpcCreate)
                /\ UNCHANGED <<rooms, used>>
           ELSE /\ Spent < MaxOps
                /\ used' = [used EXCEPT !.writes = @ + 1]
                /\ \E sheet \in Docs, npcId \in NpcIds : CreateNpc(c, id, sheet, npcId)

\* npc:request (lines 156-164)
NpcRequest(c, raw) ==
    LET id == safeRoomId(raw)
        room == RoomAt(id)
    IN  /\ Ready(c)
        /\ last' = Event("npc:request", c, id)
        /\ UNCHANGED <<rooms, live, groups, clock, accepted, creators, used>>
        /\ IF ~Stored(id) \/ ~IsMaster(room, c) THEN out' = <<>>
           ELSE \E npcId \in NpcIds :
                    out' = IF ~Truthy(NpcOf(room, npcId))
                           THEN Reject(c, ErrNpcMissing)
                           ELSE <<Emit(ToSocket(c), "npc:load",
                                       [npcId |-> npcId, sheet |-> NpcOf(room, npcId)],
                                       groups)>>

\* npc:update (lines 172-174), once the NPC is known to exist
UpdateNpc(c, id, npcId, sheet) ==
    LET room2 == [RoomAt(id) EXCEPT !.npcs = Put(@, npcId, sheet)]
    IN  /\ rooms' = Put(rooms, id, room2)
        /\ out' = << Emit(ToSocket(c), "npc:load",
                          [npcId |-> npcId, sheet |-> sheet], groups),
                     emitIndex(id, room2, groups) >>

\* npc:update (lines 166-175)
NpcUpdate(c, raw) ==
    LET id == safeRoomId(raw)
        room == RoomAt(id)
    IN  /\ Ready(c)
        /\ last' = Event("npc:update", c, id)
        /\ UNCHANGED <<live, groups, clock, accepted, creators>>
        /\ IF ~Stored(id)
           THEN /\ out' = <<>>
                /\ UNCHANGED <<rooms, used>>
           ELSE IF ~IsMaster(room, c)
           THEN /\ out' = Reject(c, ErrNpcUpdate)
                /\ UNCHANGED <<rooms, used>>
           ELSE \E npcId \in NpcIds :
                    IF ~Truthy(NpcOf(room, npcId))
                    THEN /\ out' = Reject(c, ErrNpcMissing)
                         /\ UNCHANGED <<rooms, used>>
                    ELSE /\ Spent < MaxOps
                         /\ used' = [used EXCEPT !.writes = @ + 1]
                         /\ \E sheet \in Docs : UpdateNpc(c, id, npcId, sheet)

\* npc:delete (lines 177-184)
NpcDelete(c, raw) ==
    LET id == safeRoomId(raw)
        room == RoomAt(id)
    IN  /\ Ready(c)
        /\ last' = Event("npc:delete", c, id)
        /\ UNCHANGED <<live, groups, clock, accepted, creators, used>>
        /\ IF ~Stored(id)
           THEN /\ out' = <<>>
                /\ UNCHANGED rooms
           ELSE IF ~IsMaster(room, c)
           THEN /\ out' = Reject(c, ErrNpcDelete)
                /\ UNCHANGED rooms
           ELSE \E npcId \in NpcIds :
                    LET room2 == [room EXCEPT !.npcs = Del(@, npcId)]
                    IN  /\ rooms' = Put(rooms, id, room2)
                        /\ out' = <<emitIndex(id, room2, groups)>>

\* lines 194-199 with the role fixed instead of read from users
RollEntryAsPlayer(id, c, user, payload, at) ==
    [roomId |-> id,
     from |-> [socketId |-> c, name |-> user.name, role |-> "player"],
     payload |-> payload, at |-> at]

\* the entry roll:send builds (lines 194-199)
RollEntry(id, c, user, payload, at) ==
    [roomId |-> id,
     from |-> [socketId |-> c, name |-> user.name, role |-> user.role],
     payload |-> payload, at |-> at]

\* roll:send (lines 194-204), once the caller is known to be a user;
\* Date.now() has advanced by `dt` ticks since it was last read
SendRoll(c, id, payload, dt) ==
    LET room == RoomAt(id)
        entry == RollEntry(id, c, Get(room.users, c), payload, clock + dt)
        room2 == [room EXCEPT !.rolls = AppendRoll(@, entry)]
    IN  /\ clock' = clock + dt
        /\ rooms' = Put(rooms, id, room2)
        /\ accepted' = [accepted EXCEPT ![id] = Append(@, entry)]
        /\ out' = <<Emit(ToGroup(id), "roll:broadcast", entry, groups)>>

\* roll:send (lines 187-205)
RollSend(c, raw) ==
    LET id == safeRoomId(raw)
    IN  /\ Ready(c)
        /\ last' = Event("roll:send", c, id)
        /\ UNCHANGED <<live, groups, creators>>
        /\ IF Stored(id) /\ Has(RoomAt(id).users, c)
           THEN /\ Spent < MaxOps
                /\ used' = [used EXCEPT !.sends = @ + 1]
                /\ \E payload \in Payloads, dt \in {0, 1} : SendRoll(c, id, payload, dt)
           ELSE /\ out' = <<>>
                /\ UNCHANGED <<rooms, clock, accepted, used>>

\* the scan of lines 208-209: the position in the Map of the first room
\* that has the socket in users, 0 when there is none
FirstRoomOf(rs, c) ==
    IF \E i \in DOMAIN rs : Has(rs[i][2].users, c)
    THEN CHOOSE i \in DOMAIN rs :
            /\ Has(rs[i][2].users, c)
            /\ \A j \in 1..(i - 1) : ~Has(rs[j][2].users, c)
    ELSE 0

\* lines 210-214 dropping the socket's sheet as well
WithoutUserAndSheet(room, c) ==
    [room EXCEPT !.users = Del(@, c),
                 !.masterSocketId = IF room.masterSocketId = c THEN Null ELSE @,
                 !.sheets = [k \in DOMAIN @ \ {c} |-> @[k]]]

\* lines 210-214 without the assignment of line 214
WithoutUserKeepMaster(room, c) == [room EXCEPT !.users = Del(@, c)]

\* lines 210-214: the room without the socket
WithoutUser(room, c) ==
    [room EXCEPT !.users = Del(@, c),
                 !.masterSocketId = IF room.masterSocketId = c THEN Null ELSE @]

\* disconnect (lines 207-226); the socket has left its groups
Disconnect(c) ==
    LET g2 == LeaveAll(groups, c)
        i == FirstRoomOf(rooms, c)
        roomId == rooms[i][1]
        room == rooms[i][2]
        wasMaster == room.masterSocketId = c
        room2 == WithoutUser(room, c)
        emptied == Len(room2.users) = 0
    IN  /\ Ready(c)
        /\ live' = live \ {c}
        /\ groups' = g2
        /\ last' = Event("disconnect", c, Null)
        /\ UNCHANGED <<clock, used>>
        /\ IF i = 0
           THEN /\ out' = <<>>
                /\ UNCHANGED <<rooms, accepted, creators>>
           ELSE /\ out' = (IF wasMaster
                           THEN <<Emit(ToGroup(roomId), "error:msg", ErrMasterLeft, g2)>>
                           ELSE <<>>)
                          \o (IF room2.masterSocketId # Null
                              THEN <<emitIndex(roomId, room2, g2)>>
                              ELSE <<>>)
                /\ rooms' = IF emptied THEN Del(rooms, roomId) ELSE Put(rooms, roomId, room2)
                /\ accepted' = IF emptied THEN [accepted EXCEPT ![roomId] = <<>>] ELSE accepted
                /\ creators' = IF emptied THEN [creators EXCEPT ![roomId] = {}] ELSE creators

\* the handler returns: the transport has taken the emitted events and the
\* event loop is idle again
Return ==
    /\ last # Idle
    /\ last' = Idle
    /\ out' = <<>>
    /\ UNCHANGED <<rooms, live, groups, clock, accepted, creators, used>>

----------------------------------------------------------------------------

Next ==
    \/ \E c \in Conns, raw \in RawRoomIds : RoomCreate(c, raw, NameOf(c))
    \/ \E c \in Conns, raw \in RawRoomIds : RoomJoin(c, raw, NameOf(c))
    \/ \E c \in Conns, raw \in LookupIds : RequestIndex(c, raw)
    \/ \E c \in Conns, raw \in LookupIds : SheetSave(c, raw)
    \/ \E c \in Conns, raw \in LookupIds : MasterRequestSheet(c, raw)
    \/ \E c \in Conns, raw \in LookupIds : MasterUpdateSheet(c, raw)
    \/ \E c \in Conns, raw \in LookupIds : NpcCreate(c, raw)
    \/ \E c \in Conns, raw \in LookupIds : NpcRequest(c, raw)
    \/ \E c \in Conns, raw \in LookupIds : NpcUpdate(c, raw)
    \/ \E c \in Conns, raw \in LookupIds : NpcDelete(c, raw)
    \/ \E c \in Conns, raw \in LookupIds : RollSend(c, raw)
    \/ \E c \in Conns : Disconnect(c)
    \/ Return

Spec == Init /\ [][Next]_vars

----------------------------------------------------------------------------
(* A second starting point, for the ledger near its capacity: C1 has       *)
(* created R1, C2 has joined it, and C1 has sent n rolls one tick apart,   *)
(* n being short of the capacity by at most LedgerGap                      *)

LedgerGap == 1

\* the ledger after n rolls sent by the master C1 at ticks 1..n
SentByMaster(n) ==
    [i \in 1..n |-> RollEntry(R1, C1, [name |-> storedName(NameOf(C1), Mestre),
                                       role |-> "master"], "d20", i)]

LedgerRoom(n) ==
    [masterSocketId |-> C1,
     users |-> << <<C1, [name |-> storedName(NameOf(C1), Mestre), role |-> "master"]>>,
                  <<C2, [name |-> storedName(NameOf(C2), Player), role |-> "player"]>> >>,
     sheets |-> [k \in {} |-> JNull],
     npcs |-> <<>>,
     rolls |-> SentByMaster(n)]

InitLedger ==
    \E n \in (RollCap - LedgerGap)..RollCap :
        /\ rooms = << <<R1, LedgerRoom(n)>> >>
        /\ live = Conns
        /\ groups = [g \in GroupNames |->
                        (IF g \in Conns THEN {g} ELSE {}) \cup (IF g = R1 THEN {C1, C2} ELSE {})]
        /\ last = Idle
        /\ out = <<>>
        /\ clock = n
        /\ accepted = [id \in RoomIds |-> IF id = R1 THEN SentByMaster(n) ELSE <<>>]
        /\ creators = [id \in RoomIds |-> IF id = R1 THEN {C1} ELSE {}]
        /\ used = [sends |-> 0, writes |-> 0, joins |-> 0]

\* the events that reach the ledger or the membership it depends on
NextLedger ==
    \/ \E c \in Conns, raw \in RawRoomIds : RoomCreate(c, raw, NameOf(c))
    \/ \E c \in Conns, raw \in RawRoomIds : RoomJoin(c, raw, NameOf(c))
    \/ \E c \in Conns, raw \in LookupIds : RollSend(c, raw)
    \/ \E c \in Conns : Disconnect(c)
    \/ Return

SpecLedger == InitLedger /\ [][NextLedger]_vars

----------------------------------------------------------------------------
(* A third starting point, for the summary of a sheet: C1 has created R1   *)
(* and C2 has joined it; either saves sheets drawn from SummaryDocs        *)

InitSummary ==
    /\ rooms = << <<R1, LedgerRoom(0)>> >>
    /\ live = Conns
    /\ groups = [g \in GroupNames |->
                    (IF g \in Conns THEN {g} ELSE {}) \cup (IF g = R1 THEN {C1, C2} ELSE {})]
    /\ last = Idle
    /\ out = <<>>
    /\ clock = 0
    /\ accepted = [id \in RoomIds |-> <<>>]
    /\ creators = [id \in RoomIds |-> IF id = R1 THEN {C1} ELSE {}]
    /\ used = [sends |-> 0, writes |-> 0, joins |-> 0]

NextSummary ==
    \/ \E c \in Conns, raw \in LookupIds : SheetSaveFrom(c, raw, SummaryDocs)
    \/ \E c \in Conns, raw \in LookupIds : RequestIndex(c, raw)
    \/ Return

SpecSummary == InitSummary /\ [][NextSummary]_vars

----------------------------------------------------------------------------
(* Properties *)

\* the events of `out` named ev
Emitted(ev) == {k \in DOMAIN out : out[k].ev = ev}

\* the last n elements of s
LastN(s, n) == SubSeq(s, Len(s) - n + 1, Len(s))

\* C1: while a socket whose room:create on room R succeeded is still in R's
\* users, every room:create on R is answered with the already-has-a-master
\* error, sent to the caller's socket alone, and leaves the room (master,
\* users, sheets, npcs, rolls) as it was
C1_SingleMaster ==
    [][ \A id \in RoomIds :
            ( /\ Stored(id)
              /\ \E m \in creators[id] : Has(RoomAt(id).users, m)
              /\ last'.ev = "room:create"
              /\ last'.roomId = id )
            => /\ out' = Reject(last'.from, ErrHasMaster)
               /\ out'[1].rcpt = {last'.from}
               /\ Has(rooms', id)
               /\ Get(rooms', id) = RoomAt(id) ]_vars

\* a room:create by another socket has just been refused on a room whose
\* creator is still registered
C1_Witness ==
    /\ last.ev = "room:create"
    /\ Stored(last.roomId)
    /\ out = Reject(last.from, ErrHasMaster)
    /\ LET room == RoomAt(last.roomId)
       IN  /\ room.masterSocketId \in creators[last.roomId]
           /\ Has(room.users, room.masterSocketId)
           /\ room.masterSocketId # last.from
           /\ Has(room.users, last.from)

\* C2: the ledger of every stored room holds at most 50 rolls
C2_LedgerBounded ==
    \A i \in DOMAIN rooms : Len(rooms[i][2].rolls) <= RollCap

\* a roll has just been accepted into a full ledger
C2_Witness ==
    /\ last.ev = "roll:send"
    /\ Stored(last.roomId)
    /\ Len(RoomAt(last.roomId).rolls) = RollCap
    /\ Len(accepted[last.roomId]) > RollCap

\* the ledger is the tail of what was accepted
LedgerIsTail ==
    \A id \in RoomIds :
        Stored(id) =>
            RoomAt(id).rolls = LastN(accepted[id], Min(Len(accepted[id]), RollCap))

\* what one step does to the ledger and to the broadcasts
LedgerStep ==
    LET id == last'.roomId
        sent == last'.ev = "roll:send" /\ accepted' # accepted
        e == accepted'[id][Len(accepted'[id])]
    IN  /\ sent =>
            /\ accepted' = [accepted EXCEPT ![id] = Append(@, e)]
            /\ Has(rooms', id)
            /\ Get(rooms', id).rolls \in
                    {Append(RoomAt(id).rolls, e), Tail(Append(RoomAt(id).rolls, e))}
            /\ out' = <<Emit(ToGroup(id), "roll:broadcast", e, groups)>>
        /\ ~sent =>
            /\ \A k \in DOMAIN out' : out'[k].ev # "roll:broadcast"
            /\ \A r \in RoomIds :
                  Has(rooms, r) /\ Has(rooms', r) => Get(rooms', r).rolls = RoomAt(r).rolls

\* C3: after n accepted roll:send events the ledger of the room holds the
\* last min(n, 50) accepted entries, oldest first; an append evicts nothing
\* or the single oldest entry; every accepted send emits exactly one
\* roll:broadcast, carrying the entry just appended, and nothing else does
C3_LedgerFifo == [](LedgerIsTail) /\ [][LedgerStep]_vars

\* two entries have been evicted and the ledger holds rolls of two senders
C3_Witness ==
    /\ last.ev = "roll:send"
    /\ Stored(R1)
    /\ Len(accepted[R1]) >= RollCap + 2
    /\ RoomAt(R1).rolls[1] = accepted[R1][Len(accepted[R1]) - RollCap + 1]
    /\ \E i, j \in DOMAIN RoomAt(R1).rolls :
          RoomAt(R1).rolls[i].from.socketId # RoomAt(R1).rolls[j].from.socketId

\* the master-only events that change the room
MasterOnly == {"master:updateSheet", "npc:create", "npc:update", "npc:delete"}

\* the error each of them gives a caller who is not the master
DeniedMsg(ev) ==
    CASE ev = "master:updateSheet" -> ErrEditSheets
      [] ev = "npc:create" -> ErrNpcCreate
      [] ev = "npc:update" -> ErrNpcUpdate
      [] ev = "npc:delete" -> ErrNpcDelete

\* the step handles a master-only event whose caller is not the master of
\* the room it names
DeniedStep ==
    /\ last'.ev \in MasterOnly
    /\ ~(Stored(last'.roomId) /\ RoomAt(last'.roomId).masterSocketId = last'.from)

\* C4 as claimed: a master-only event from a caller who is not the room's
\* master, whatever room id it names, gives the caller an error:msg and
\* changes nothing
C4_Original ==
    [][ DeniedStep =>
            /\ \E k \in DOMAIN out' :
                    out'[k].ev = "error:msg" /\ out'[k].rcpt = {last'.from}
            /\ rooms' = rooms ]_vars

\* C4 as amended: when the id names a stored room the caller gets exactly
\* the handler's error:msg; when it names no stored room nothing is
\* emitted; either way the registry and every room stay as they were
C4_Denied ==
    [][ DeniedStep =>
            /\ out' = IF Stored(last'.roomId)
                      THEN Reject(last'.from, DeniedMsg(last'.ev))
                      ELSE <<>>
            /\ rooms' = rooms /\ groups' = groups /\ live' = live ]_vars

\* a player of a stored room has just been refused a master-only event
C4_Witness ==
    /\ last.ev \in MasterOnly
    /\ Stored(last.roomId)
    /\ Has(RoomAt(last.roomId).users, last.from)
    /\ RoomAt(last.roomId).masterSocketId \notin {Null, last.from}
    /\ out = Reject(last.from, DeniedMsg(last.ev))

\* C5 as claimed: every error:msg goes to the socket whose event is being
\* handled and to no one else
C5_Original ==
    \A k \in Emitted("error:msg") :
        out[k].to = ToSocket(last.from) /\ out[k].rcpt = {last.from}

\* C5 as amended: outside disconnect every error:msg goes to the caller's
\* socket alone; disconnect emits error:msg only as the no-master notice,
\* addressed to the group of a room, which the caller has already left
C5_ErrorsToCaller ==
    \A k \in Emitted("error:msg") :
        IF last.ev = "disconnect"
        THEN /\ out[k].data = ErrMasterLeft
             /\ out[k].to.kind = "group"
             /\ out[k].to.id \in RoomIds
             /\ last.from \notin out[k].rcpt
        ELSE out[k].to = ToSocket(last.from) /\ out[k].rcpt = {last.from}

\* the no-master notice has just reached a player left in the room
C5_Witness ==
    /\ last.ev = "disconnect"
    /\ \E k \in Emitted("error:msg") :
          /\ out[k].rcpt # {}
          /\ Stored(out[k].to.id)
          /\ out[k].rcpt \subseteq Keys(RoomAt(out[k].to.id).users)

\* C6 as claimed: every room:sheetsIndex is addressed to the non-empty
\* master of the room it describes and reaches no socket that is only a
\* player of that room
C6_Original ==
    \A k \in Emitted("room:sheetsIndex") :
        /\ out[k].to.id # Null
        /\ Stored(out[k].about)
        /\ out[k].to = ToGroup(RoomAt(out[k].about).masterSocketId)
        /\ \A x \in out[k].rcpt :
              ~ /\ x # RoomAt(out[k].about).masterSocketId
                /\ Has(RoomAt(out[k].about).users, x)
                /\ Get(RoomAt(out[k].about).users, x).role = "player"

\* C7: room:join on an id with no stored room gives the caller the
\* no-such-room error and changes nothing; room:join on a stored room with
\* a master registers the caller as player and sends it a roll:history
\* equal to the room's ledger (empty when nothing was accepted since the
\* room was stored)
C7_Join ==
    [][ (last'.ev = "room:join" /\ last'.roomId # <<>>) =>
            LET id == last'.roomId
                c == last'.from
            IN  /\ ~Stored(id) =>
                    /\ out' = Reject(c, ErrNoRoom)
                    /\ rooms' = rooms /\ groups' = groups /\ live' = live
                /\ (Stored(id) /\ RoomAt(id).masterSocketId # Null) =>
                    /\ Has(rooms', id)
                    /\ Has(Get(rooms', id).users, c)
                    /\ Get(Get(rooms', id).users, c).role = "player"
                    /\ \E k \in DOMAIN out' :
                          /\ out'[k].ev = "roll:history"
                          /\ out'[k].to = ToSocket(c)
                          /\ out'[k].data.list = RoomAt(id).rolls
                          /\ accepted[id] = <<>> => out'[k].data.list = <<>> ]_vars

\* a socket has just joined a room and received a ledger that is not empty
C7_Witness ==
    /\ last.ev = "room:join"
    /\ Stored(last.roomId)
    /\ Has(RoomAt(last.roomId).users, last.from)
    /\ \E k \in Emitted("roll:history") :
          out[k].data.list # <<>> /\ out[k].data.list = RoomAt(last.roomId).rolls

\* the rooms that have socket c in users
RoomsOf(c) == {rooms[i][1] : i \in {j \in DOMAIN rooms : Has(rooms[j][2].users, c)}}

\* C8 as claimed: when the master of a room that has other users
\* disconnects, the room stays stored without its master and the notice
\* goes to the room's group; and a room leaves the registry exactly in the
\* step that handles the disconnect of its last user
C8_Original ==
    [][ \A id \in RoomIds :
            Stored(id) =>
                LET room == RoomAt(id)
                    c == last'.from
                IN  /\ ( /\ last'.ev = "disconnect"
                         /\ room.masterSocketId = c
                         /\ Keys(room.users) \ {c} # {} )
                       => /\ Has(rooms', id)
                          /\ Get(rooms', id).masterSocketId = Null
                          /\ Keys(Get(rooms', id).users) = Keys(room.users) \ {c}
                          /\ \E k \in DOMAIN out' :
                                /\ out'[k].ev = "error:msg"
                                /\ out'[k].to = ToGroup(id)
                    /\ ~Has(rooms', id)
                       <=> (last'.ev = "disconnect" /\ Keys(room.users) = {c}) ]_vars

\* C9 as claimed: a socket is in the users of at most one stored room
C9_Original == \A c \in Conns : Cardinality(RoomsOf(c)) <= 1

\* C10 as claimed: a socket whose disconnect has been handled is neither
\* the master nor a user of any room, and a room:join that succeeds finds
\* the room's master connected
C10_Original ==
    /\ \A c \in Conns \ live :
          \A i \in DOMAIN rooms :
              rooms[i][2].masterSocketId # c /\ ~Has(rooms[i][2].users, c)
    /\ (last.ev = "room:join" /\ Emitted("room:joined") # {})
          => RoomAt(last.roomId).masterSocketId \in live

\* what one step may do to the registry: a room enters it only in a
\* room:create that registers its caller, and leaves it only in the
\* disconnect that removes its last user
RegistryStep ==
    \A id \in RoomIds :
        /\ (~Stored(id) /\ Has(rooms', id)) =>
              /\ last'.ev = "room:create" /\ last'.roomId = id
              /\ Has(Get(rooms', id).users, last'.from)
        /\ (Stored(id) /\ ~Has(rooms', id)) =>
              /\ last'.ev = "disconnect"
              /\ Keys(RoomAt(id).users) = {last'.from}
        /\ (Stored(id) /\ Has(rooms', id)
              /\ Keys(Get(rooms', id).users) # Keys(RoomAt(id).users)) =>
              Keys(Get(rooms', id).users) # {}

\* every stored room has at least one user
UsersNonEmpty == \A i \in DOMAIN rooms : rooms[i][2].users # <<>>

\* C11: every stored room has at least one user; a room is stored only by
\* a room:create that registers its caller and is removed in the dispatch
\* that removes its last user
C11_NonEmptyUsers ==
    /\ [](UsersNonEmpty)
    /\ [][RegistryStep]_vars

\* the master of a room has just disconnected as its last user: the notice
\* names a room that is no longer stored, while another room stays stored
C11_Witness ==
    /\ last.ev = "disconnect"
    /\ rooms # <<>>
    /\ \E k \in Emitted("error:msg") : ~Stored(out[k].to.id)

\* what the disconnect of socket c leaves of the room stored under id
KeptByDisconnect(id, c) ==
    LET room == RoomAt(id)
    IN  IF ~Has(room.users, c)
        THEN Has(rooms', id) /\ Get(rooms', id) = room
        ELSE Keys(room.users) # {c} =>
                /\ Has(rooms', id)
                /\ Get(rooms', id).sheets = room.sheets
                /\ Get(rooms', id).npcs = room.npcs
                /\ Get(rooms', id).rolls = room.rolls
                /\ Del(Get(rooms', id).users, c) = Del(room.users, c)

\* C12: the disconnect of a socket that is not the last user of a room
\* leaves the room's sheets (the socket's own included), npcs and rolls and
\* every other user's entry as they were, and leaves every room the socket
\* is not a user of as it was
C12_DisconnectFrame ==
    [][ last'.ev = "disconnect" =>
            \A id \in RoomIds : Stored(id) => KeptByDisconnect(id, last'.from) ]_vars

\* a player with a stored sheet has just disconnected from a room that
\* keeps its master: the sheet is still there, the player is not
C12_Witness ==
    /\ last.ev = "disconnect"
    /\ \E k \in Emitted("room:sheetsIndex") :
          LET id == out[k].about
          IN  /\ Stored(id)
              /\ ~Has(RoomAt(id).users, last.from)
              /\ SheetOf(RoomAt(id), last.from) = DocB
              /\ RoomAt(id).masterSocketId \in live

\* the read-only queries reserved to the master
MasterQueries == {"room:requestIndex", "npc:request"}

\* C13: a room:requestIndex or npc:request whose caller is not the master
\* of the room it names emits nothing at all and changes no state
C13_SilentQueries ==
    [][ ( /\ last'.ev \in MasterQueries
          /\ ~(Stored(last'.roomId) /\ RoomAt(last'.roomId).masterSocketId = last'.from) )
        => /\ out' = <<>>
           /\ rooms' = rooms /\ groups' = groups /\ live' = live
           /\ clock' = clock ]_vars

\* a player has just asked for an NPC of its room, which has one and has
\* its master connected, and got nothing
C13_Witness ==
    /\ last.ev = "npc:request"
    /\ Stored(last.roomId)
    /\ LET room == RoomAt(last.roomId)
       IN  /\ Has(room.users, last.from)
           /\ Get(room.users, last.from).role = "player"
           /\ room.masterSocketId \in live \ {last.from}
           /\ room.npcs # <<>>
    /\ out = <<>>

\* the number the claim gives for a field read from `first`, else `second`
ClaimedNumber(first, second) ==
    LET selected == IF first.t # "null" THEN first ELSE second
    IN  IF selected.t = "null" \/ selected = JStr(<<>>) THEN JNull ELSE ToNumber(selected)

\* the name the claim gives: `name`, else character.name, else null (an
\* empty name may also count as absent)
ClaimedNames(sheet) ==
    LET first == FieldOf(sheet, "name")
        second == FieldOf(FieldOf(sheet, "character"), "name")
        selected == IF first.t # "null" THEN first ELSE second
    IN  IF selected = JStr(<<>>) THEN {selected, JNull, second} ELSE {selected}

\* C14 as claimed: the summary sent for a saved sheet has hp coerced from
\* hp_now, else from resources.hp, and null when neither is present or the
\* one selected is the empty string; pd likewise; name from name, else
\* character.name, else null
C14_Original ==
    last.ev = "sheet:save" =>
        \A k \in Emitted("sheet:summary") :
            LET sheet == SheetOf(RoomAt(last.roomId), last.from)
            IN  /\ out[k].data.hp = ClaimedNumber(FieldOf(sheet, "hp_now"),
                                                  FieldOf(FieldOf(sheet, "resources"), "hp"))
                /\ out[k].data.pd = ClaimedNumber(FieldOf(sheet, "pd_now"),
                                                  FieldOf(FieldOf(sheet, "resources"), "pd"))
                /\ out[k].data.name \in ClaimedNames(sheet)

\* the list is the index of the room: one player entry per user with role
\* player, in the order of users, then one npc entry per NPC, in the order
\* of npcs; a player with no stored sheet has its user name and no hp, pd
IndexOfRoom(list, room) ==
    LET players == SelectSeq(room.users, LAMBDA e : e[2].role = "player")
        np == Len(players)
    IN  /\ Len(list) = np + Len(room.npcs)
        /\ \A i \in 1..np :
              /\ list[i].type = "player"
              /\ list[i].id = players[i][1]
              /\ ~Truthy(SheetOf(room, players[i][1])) =>
                    /\ list[i].name = JStr(players[i][2].name)
                    /\ list[i].hp = JNull
                    /\ list[i].pd = JNull
        /\ \A j \in 1..Len(room.npcs) :
              /\ list[np + j].type = "npc"
              /\ list[np + j].id = room.npcs[j][1]

\* the list has no player entry for the room's master
NoMasterEntry(list, room) ==
    \A i \in DOMAIN list :
        ~(list[i].type = "player" /\ list[i].id = room.masterSocketId)

\* C15 as claimed: every index sent is the index of its room as described
\* and has no entry for the room's master
C15_Original ==
    \A k \in Emitted("room:sheetsIndex") :
        /\ Stored(out[k].about)
        /\ IndexOfRoom(out[k].data.list, RoomAt(out[k].about))
        /\ NoMasterEntry(out[k].data.list, RoomAt(out[k].about))

\* the ledger `after` keeps the entries of `before` as they were, but for
\* the oldest one, which may be gone
OnlyEvicted(before, after) ==
    \E d \in {0, 1} :
        /\ d <= Len(before)
        /\ Len(after) >= Len(before) - d
        /\ SubSeq(after, 1, Len(before) - d) = SubSeq(before, 1 + d, Len(before))

\* what a roll:send from socket c naming room id does
RollSendStep(c, id) ==
    IF ~(Stored(id) /\ Has(RoomAt(id).users, c))
    THEN out' = <<>> /\ rooms' = rooms
    ELSE LET room == RoomAt(id)
             user == Get(room.users, c)
             after == Get(rooms', id).rolls
             e == after[Len(after)]
         IN  /\ Has(rooms', id)
             /\ after # <<>>
             /\ e.roomId = id
             /\ e.from = [socketId |-> c, name |-> user.name, role |-> user.role]
             /\ \/ SubSeq(after, 1, Len(after) - 1) = room.rolls
                \/ /\ room.rolls # <<>>
                   /\ SubSeq(after, 1, Len(after) - 1) = Tail(room.rolls)
             /\ \E k \in DOMAIN out' :
                   /\ out'[k].ev = "roll:broadcast"
                   /\ out'[k].data = e
                   /\ c \in out'[k].rcpt
                   /\ Keys(room.users) \cap live \subseteq out'[k].rcpt

\* C16: a roll:send from a socket that is not a user of the named room
\* appends and emits nothing; one from a user appends an entry whose `from`
\* has the sender's id and the name and role users holds for it, and the
\* broadcast reaches the sender and every connected user of the room; no
\* step changes an entry already in a ledger, it can only evict the oldest
C16_RollSend ==
    [][ /\ last'.ev = "roll:send" => RollSendStep(last'.from, last'.roomId)
        /\ \A id \in RoomIds :
              (Stored(id) /\ Has(rooms', id)) =>
                  OnlyEvicted(RoomAt(id).rolls, Get(rooms', id).rolls) ]_vars

\* the master, registered again as player by its own join, has just sent a
\* roll into the full ledger: the entry says player, the older entries of
\* the same socket still say master, and the other user got the broadcast
C16_Witness ==
    /\ last.ev = "roll:send"
    /\ Stored(last.roomId)
    /\ LET room == RoomAt(last.roomId)
       IN  /\ room.masterSocketId = last.from
           /\ Len(accepted[last.roomId]) > RollCap
           /\ room.rolls[Len(room.rolls)].from.socketId = last.from
           /\ room.rolls[Len(room.rolls)].from.role = "player"
           /\ room.rolls[1].from.socketId = last.from
           /\ room.rolls[1].from.role = "master"
           /\ \E k \in Emitted("roll:broadcast") :
                 \E u \in Keys(room.users) \ {last.from} : u \in out[k].rcpt

\* the events that write NPC documents
NpcWrites == {"npc:create", "npc:update", "npc:delete"}

\* sheets[x] is not the same in the two rooms
SheetDiffers(before, after, x) ==
    \/ (x \in DOMAIN before.sheets) # (x \in DOMAIN after.sheets)
    \/ /\ x \in DOMAIN before.sheets
       /\ x \in DOMAIN after.sheets
       /\ before.sheets[x] # after.sheets[x]

\* what one step may write in the room stored under id
WritesStep(id) ==
    LET before == RoomAt(id)
        after == Get(rooms', id)
    IN  /\ \A x \in DOMAIN before.sheets \cup DOMAIN after.sheets :
              SheetDiffers(before, after, x) =>
                  /\ last'.roomId = id
                  /\ \/ /\ last'.ev = "sheet:save"
                        /\ last'.from = x
                        /\ Has(before.users, x)
                     \/ /\ last'.ev = "master:updateSheet"
                        /\ last'.from = before.masterSocketId
        /\ after.npcs # before.npcs =>
              /\ last'.roomId = id
              /\ last'.ev \in NpcWrites
              /\ last'.from = before.masterSocketId

\* C17: in a room sheets[X] changes only in a sheet:save sent by X, a user
\* of the room, or in a master:updateSheet sent by the room's master; npcs
\* changes only in an npc:create, npc:update or npc:delete sent by the
\* room's master; always in an event that names that room; and a room
\* enters the registry without sheets and NPCs
C17_Writers ==
    [][ \A id \in RoomIds :
            /\ (Stored(id) /\ Has(rooms', id)) => WritesStep(id)
            /\ (~Stored(id) /\ Has(rooms', id)) =>
                  /\ DOMAIN Get(rooms', id).sheets = {}
                  /\ Get(rooms', id).npcs = <<>> ]_vars

\* the master has just written the sheet of a player of its room
C17_Witness ==
    /\ last.ev = "master:updateSheet"
    /\ Stored(last.roomId)
    /\ LET room == RoomAt(last.roomId)
       IN  /\ room.masterSocketId = last.from
           /\ \E x \in Keys(room.users) \ {last.from} :
                 /\ Get(room.users, x).role = "player"
                 /\ SheetOf(room, x) = DocB

\* the users of the room the event being handled names
UsersOfNamedRoom ==
    IF Stored(last.roomId) THEN Keys(RoomAt(last.roomId).users) ELSE {}

\* C18 as claimed: every event emitted while handling an event that names
\* a room is delivered only to the sender or to users of that room; and a
\* sheet:load of master:updateSheet is not addressed to the group of
\* another room
C18_Original ==
    last.ev \notin {"idle", "disconnect"} =>
        \A k \in DOMAIN out :
            /\ out[k].rcpt \subseteq {last.from} \cup UsersOfNamedRoom
            /\ (last.ev = "master:updateSheet" /\ out[k].ev = "sheet:load")
                  => ~(out[k].to.kind = "group"
                       /\ out[k].to.id \in RoomIds \ {last.roomId})

\* C19 as claimed: in every room a user has role master exactly when its
\* socket id is the room's masterSocketId, so the master is never
\* registered as player and no two users have role master
C19_Original ==
    \A i \in DOMAIN rooms :
        LET room == rooms[i][2]
        IN  /\ \A j \in DOMAIN room.users :
                  room.users[j][2].role = "master" <=> room.users[j][1] = room.masterSocketId
            /\ Cardinality({j \in DOMAIN room.users : room.users[j][2].role = "master"}) <= 1

\* the master of every stored room, when set, is a key of its users
MasterIsUser ==
    \A i \in DOMAIN rooms :
        rooms[i][2].masterSocketId # Null
            => Has(rooms[i][2].users, rooms[i][2].masterSocketId)

\* what one step may do to the master of the room stored under id
MasterStep(id) ==
    LET before == IF Stored(id) THEN RoomAt(id) ELSE NewRoom
        after == Get(rooms', id)
    IN  after.masterSocketId # before.masterSocketId =>
            IF after.masterSocketId = Null
            THEN /\ last'.ev = "disconnect"
                 /\ last'.from = before.masterSocketId
                 /\ ~Has(after.users, last'.from)
            ELSE /\ last'.ev = "room:create" /\ last'.roomId = id
                 /\ after.masterSocketId = last'.from
                 /\ Has(after.users, last'.from)
                 /\ before.masterSocketId = Null

\* C20: the masterSocketId of a room is empty or a key of the room's
\* users; it is set only by a room:create that registers the caller, on a
\* room that has none, and cleared only by the disconnect that removes the
\* master from users
C20_MasterIsUser ==
    /\ [](MasterIsUser)
    /\ [][ \A id \in RoomIds : Has(rooms', id) => MasterStep(id) ]_vars

\* a room whose master had left has just been given a new master by
\* room:create, beside a user that stayed
C20_Witness ==
    /\ last.ev = "room:create"
    /\ Stored(last.roomId)
    /\ LET room == RoomAt(last.roomId)
       IN  /\ room.masterSocketId = last.from
           /\ Cardinality(creators[last.roomId]) >= 2
           /\ Len(room.users) >= 2
           /\ Emitted("room:joined") # {}

====
